---- MODULE Spec2Model ----
(***************************************************************************)
(* Session and credential management of the notes backend: the AuthS       *)
(* service (sign-up, sign-in, logout, refresh-token rotation, access-token *)
(* verification), the UserS operations that touch credentials, the notes   *)
(* of the users, and the users / tokens / notes tables they run against.   *)
(*                                                                         *)
(* Time is counted in ticks; TicksPerSec ticks make one second, so a       *)
(* time.Time carries a sub-second part and a JWT NumericDate (whole        *)
(* seconds) does not.  uuid.New() and the bcrypt salt are drawn from       *)
(* counters: every value they return is one never returned before.         *)
(* Every SQL statement is one atomic step; a service call that issues      *)
(* several statements is one step per statement, the local computation     *)
(* between two statements being taken together with the later one.         *)
(* Statements do not fail in the driver: a statement fails only by what    *)
(* the tables hold (no row, a violated constraint).  The service and the   *)
(* database run in UTC, so a time written to a TIMESTAMP column reads back *)
(* as the instant it was.                                                  *)
(***************************************************************************)
EXTENDS Integers, Sequences, FiniteSets, Bags, TLC

\* ---------------------------------------------------------------- bounds
TicksPerSec == 2
MaxTime == 2
MaxCalls == 3
MaxUsers == 2
MaxSalt == 2
\* config.AuthCfg: both TTLs are deployment inputs, here in ticks
AccessTokenTTL == 2
RefreshTokenTTL == 1
JwtSecret == "secret"
WrongSecret == "secretwrong"
MaxMinted == 2
MaxUserCalls == 2
MaxAccounts == 1
MaxPasswordCalls == 2
MaxHashes == 3
MaxNotes == 2
MaxListCalls == 1

\* dto.UserCreate values offered to SignUp: two distinct users, a second
\* account on a taken email, and an empty password
SignUpInputs ==
    { [username |-> "alice", email |-> "a@x.com", password |-> "secure123"],
      [username |-> "bob", email |-> "b@x.com", password |-> "password2"],
      [username |-> "bob", email |-> "a@x.com", password |-> "password2"],
      [username |-> "carol", email |-> "c@x.com", password |-> ""] }
\* dto.UserSignIn values offered to SignIn
SignInInputs ==
    { [email |-> "a@x.com", password |-> "secure123"],
      [email |-> "a@x.com", password |-> "password2"],
      [email |-> "b@x.com", password |-> "password2"] }
Passwords == {"secure123", "password2"}
\* dto.UserCreate values offered to SignUp on its own: every combination of an
\* empty, a first and a second username, email and password
SignUpRequests ==
    [username : {"", "alice", "bob"}, email : {"", "a@x.com", "b@x.com"},
     password : {""} \cup Passwords]

\* ------------------------------------------------------------ zero values
UuidNil == 0
\* sub claim values that are not the text of a UUID
SubMissing == -1
SubNotString == -2
SubNotUUID == -3
NoHash == [salt |-> 0, pw |-> ""]
ZeroToken == [user_id |-> UuidNil, token_id |-> 0, expired_at |-> 0]
NoErr == {}

VARIABLES
    users,        \* the users table
    tokens,       \* the tokens table
    calls,        \* the SignIn / RefreshToken / Logout calls made so far, a bag of call records
    last,         \* the latest SignUp / UserS / NoteS / ParseToken call that returned, and its result
    minted,       \* every access token generateAccessToken has produced, with its subject and time
    now,          \* the clock
    nextUUID,     \* uuid.New() for user IDs
    nextTokenID,  \* uuid.New().String() for refresh token IDs
    nextSalt,     \* the bcrypt salt source
    notes,        \* the notes table
    reqs          \* the UserS.UpdateUserPassword and NoteS.Notes calls in flight, a bag of call records

vars == <<users, tokens, calls, last, minted, now, nextUUID, nextTokenID, nextSalt, notes, reqs>>

\* domain.MakeError: wraps the kind and the cause, both visible to errors.Is
MakeError(dErr, err) == {dErr} \cup err

\* ------------------------------------------------------------- hasher
\* bcrypt reads at most this many bytes of a password
BcryptMaxBytes == 72
\* the byte 0x00, written as a character that stands for no other byte here
Nul == "~"
\* a password of exactly BcryptMaxBytes bytes, and two longer ones that start with it
LongPrefix == "pppppppppppppppppppppppppppppppppppppppppppppppppppppppppppppppppppppppp"
LongPasswords == {LongPrefix \o "1", LongPrefix \o "2"}
\* the first n bytes of s repeated without end
RECURSIVE Cycle(_, _)
Cycle(s, n) == IF Len(s) >= n THEN SubSeq(s, 1, n) ELSE Cycle(s \o s, n)
\* the key bcrypt hands to Blowfish: the password and a closing 0x00 byte, read
\* cyclically for BcryptMaxBytes bytes
BcryptKey(password) == Cycle(password \o Nul, BcryptMaxBytes)
\* the password holds no 0x00 byte
NoNul(password) == \A i \in 1..Len(password) : SubSeq(password, i, i) # Nul

\* a hash made without a salt of its own
GenerateHash_Unsalted(password, salt) ==
    IF password = "" THEN [hash |-> NoHash, err |-> {"empty password"}]
    ELSE [hash |-> [salt |-> 0, pw |-> BcryptKey(password)], err |-> NoErr]

\* Hasher.GenerateHash over bcrypt.GenerateFromPassword: a hash carries its
\* salt and, one way, the key of the password; a password longer than bcrypt
\* reads is refused
GenerateHash(password, salt) ==
    IF password = "" THEN [hash |-> NoHash, err |-> {"empty password"}]
    ELSE IF Len(password) > BcryptMaxBytes THEN [hash |-> NoHash, err |-> {"password too long"}]
    ELSE [hash |-> [salt |-> salt, pw |-> BcryptKey(password)], err |-> NoErr]

\* what GenerateHash can return: a bcrypt package from before the length check
\* hashes the first BcryptMaxBytes bytes of a longer password instead of refusing it
GenerateHashResults(password, salt) ==
    {GenerateHash(password, salt)} \cup
    (IF Len(password) > BcryptMaxBytes
        THEN {[hash |-> [salt |-> salt, pw |-> BcryptKey(password)], err |-> NoErr]}
        ELSE {})

\* a comparison that accepts every password
ComparePassword_Always(hash, password) == NoErr

\* Hasher.ComparePassword over bcrypt.CompareHashAndPassword: the hash of the
\* key of the password under the salt of the stored hash, compared with it
ComparePassword(hash, password) ==
    IF hash = NoHash THEN {"hashTooShort"}
    ELSE IF hash.pw = BcryptKey(password) THEN NoErr
    ELSE {"mismatchedHashAndPassword"}

\* ------------------------------------------------------- access tokens
\* types.NumericDate on the wire: whole seconds since the epoch
NumericDate(t) == t \div TicksPerSec

\* HMAC-SHA256 over the encoded header and payload
Hmac(key, hdr, claims) == [key |-> key, hdr |-> hdr, claims |-> claims]

\* the compact serialisation: header, payload, signature, and the trailing
\* bits of the last base64url character of the signature, which carry no data
JwtSign(claims, key) ==
    LET hdr == [alg |-> "HS256"] IN
    [hdr |-> hdr, claims |-> claims, mac |-> Hmac(key, hdr, claims), pad |-> 0]

EmptyJwt ==
    [hdr |-> [alg |-> ""], claims |-> [sub |-> SubMissing, iat |-> 0, exp |-> 0],
     mac |-> Hmac("", [alg |-> ""], [sub |-> SubMissing, iat |-> 0, exp |-> 0]), pad |-> 0]

\* dto.TokenOutput{}
OutZero == [AccessToken |-> EmptyJwt, RefreshToken |-> 0]

\* an expiry test that still accepts the token during the second of its exp claim
IsExpired_Strict(exp, t) == NumericDate(t) > exp

\* jwt.Validate, expiration: the token is expired unless now, truncated to
\* the second, is before the exp claim
IsExpired(exp, t) == ~(NumericDate(t) < exp)

\* jwt.Parse with jwt.WithKey(jwa.HS256, key): algorithm, signature, then validation
\* base64url decoding of the three segments: the trailing bits are dropped
JwtDecode(text) == [hdr |-> text.hdr, claims |-> text.claims, mac |-> text.mac]

\* a parse that validates the claims and does not verify the signature
JwtParseErr_NoVerify(text, key, t) ==
    LET msg == JwtDecode(text) IN
    IF NumericDate(t) < msg.claims.iat THEN {"iat"}
    ELSE IF IsExpired(msg.claims.exp, t) THEN {"exp"}
    ELSE NoErr

JwtParseErr(text, key, t) ==
    LET msg == JwtDecode(text) IN
    IF msg.hdr.alg # "HS256" THEN {"alg"}
    ELSE IF msg.mac # Hmac(key, msg.hdr, msg.claims) THEN {"signature"}
    ELSE IF NumericDate(t) < msg.claims.iat THEN {"iat"}
    ELSE IF IsExpired(msg.claims.exp, t) THEN {"exp"}
    ELSE NoErr

\* an access token whose exp claim is the time of issue
generateAccessToken_NoTTL(userID, t) ==
    JwtSign([sub |-> userID, iat |-> NumericDate(t), exp |-> NumericDate(t)], JwtSecret)

\* an access token whose subject is the zero UUID
generateAccessToken_NilSubject(userID, t) ==
    JwtSign([sub |-> UuidNil, iat |-> NumericDate(t), exp |-> NumericDate(t + AccessTokenTTL)], JwtSecret)

\* AuthS.generateAccessToken at time t
generateAccessToken(userID, t) ==
    JwtSign([sub |-> userID, iat |-> NumericDate(t), exp |-> NumericDate(t + AccessTokenTTL)], JwtSecret)

\* a refresh token whose ID is the same on every call
generateRefreshToken_SameID(userID, tokenID, t) ==
    [user_id |-> userID, token_id |-> 1, expired_at |-> t + RefreshTokenTTL]

\* a refresh token that expires at the time of issue
generateRefreshToken_NoTTL(userID, tokenID, t) ==
    [user_id |-> userID, token_id |-> tokenID, expired_at |-> t]

\* AuthS.generateRefreshToken at time t, tokenID being the fresh uuid
generateRefreshToken(userID, tokenID, t) ==
    [user_id |-> userID, token_id |-> tokenID, expired_at |-> t + RefreshTokenTTL]

\* a ParseToken that also wants the subject to be a row of the users table
ParseToken_CheckUser(accessToken, t) ==
    IF JwtParseErr(accessToken, JwtSecret, t) # NoErr
        THEN [userID |-> UuidNil, err |-> {"invalid token"}]
    ELSE IF \A u \in users : u.id # accessToken.claims.sub
        THEN [userID |-> UuidNil, err |-> {"invalid token"}]
    ELSE [userID |-> accessToken.claims.sub, err |-> NoErr]

\* a ParseToken that returns whatever the sub claim holds
ParseToken_AnySubject(accessToken, t) ==
    IF JwtParseErr(accessToken, JwtSecret, t) # NoErr
        THEN [userID |-> UuidNil, err |-> {"invalid token"}]
    ELSE [userID |-> accessToken.claims.sub, err |-> NoErr]

\* AuthS.ParseToken at time t
ParseToken(accessToken, t) ==
    IF JwtParseErr(accessToken, JwtSecret, t) # NoErr
        THEN [userID |-> UuidNil, err |-> {"invalid token"}]
    ELSE IF accessToken.claims.sub = SubMissing
        THEN [userID |-> UuidNil, err |-> {"invalid token"}]
    ELSE IF accessToken.claims.sub = SubNotString
        THEN [userID |-> UuidNil, err |-> {"invalid token"}]
    ELSE IF accessToken.claims.sub = SubNotUUID
        THEN [userID |-> UuidNil, err |-> {"ErrInvalidUUID"}]
    ELSE [userID |-> accessToken.claims.sub, err |-> NoErr]

\* ------------------------------------------------------------ tables
\* the users table without its UNIQUE constraints
InsertUserOk_NoUnique(tbl, user) ==
    /\ user.username # "" /\ user.email # "" /\ user.password # NoHash
    /\ \A r \in tbl : r.id # user.id

\* users: id PRIMARY KEY, username and email UNIQUE, CHECKs on empty text
InsertUserOk(tbl, user) ==
    /\ user.username # "" /\ user.email # "" /\ user.password # NoHash
    /\ \A r \in tbl : r.id # user.id /\ r.username # user.username /\ r.email # user.email

\* SELECT id, password FROM users WHERE email = $1
CredRows(tbl, email) == {r \in tbl : r.email = email}

\* the tokens table without its foreign key on users
InsertTokenOk_NoFK(utbl, ttbl, token) ==
    /\ token.token_id # 0
    /\ \A r \in ttbl : ~(r.user_id = token.user_id /\ r.token_id = token.token_id)

\* tokens: PRIMARY KEY (user_id, token_id), user_id REFERENCES users
InsertTokenOk(utbl, ttbl, token) ==
    /\ token.token_id # 0
    /\ \E u \in utbl : u.id = token.user_id
    /\ \A r \in ttbl : ~(r.user_id = token.user_id /\ r.token_id = token.token_id)

\* a SELECT that returns the records of every token ID
TokenRows_Any(tbl, tokenID) == tbl

\* SELECT ... FROM tokens WHERE token_id = $1
TokenRows(tbl, tokenID) == {r \in tbl : r.token_id = tokenID}

\* a DELETE that removes nothing
DeleteTokenRows_Keep(tbl, tokenID) == tbl

\* a DELETE that removes every record of the user who owns the token
DeleteTokenRows_OfUser(tbl, tokenID) ==
    {r \in tbl : \A x \in TokenRows(tbl, tokenID) : r.user_id # x.user_id}

\* DELETE FROM tokens WHERE token_id = $1: the table afterwards
DeleteTokenRows(tbl, tokenID) == tbl \ TokenRows(tbl, tokenID)

\* DeleteToken without its RowsAffected check
DeleteTokenErr_NoCheck(rowsAffected) == NoErr

\* TokenR.DeleteToken: the error it returns from the rows affected
DeleteTokenErr(rowsAffected) ==
    IF rowsAffected = 0 THEN MakeError("ErrFailedToDelete", {"ErrNotFound"}) ELSE NoErr

\* DELETE FROM users WHERE id = $1, with ON DELETE CASCADE on tokens
CascadeTokens(tbl, userID) == {r \in tbl : r.user_id # userID}

\* DELETE FROM users WHERE id = $1, with ON DELETE CASCADE on notes
CascadeNotes(tbl, userID) == {n \in tbl : n.user_id # userID}

\* the rows of every owner with this id
NoteRows_AnyOwner(tbl, userID, noteID) == {n \in tbl : n.id = noteID}

\* ... FROM notes WHERE id=$1 AND user_id=$2
NoteRows(tbl, userID, noteID) == {n \in tbl : n.id = noteID /\ n.user_id = userID}

\* INSERT INTO notes: id is the primary key, user_id references users,
\* heading and content are checked to be non-empty
InsertNoteOk(tbl, usr, note) ==
    /\ \A n \in tbl : n.id # note.id
    /\ \E u \in usr : u.id = note.user_id
    /\ note.heading # ""
    /\ note.content # ""

\* utils.AddFieldsToQuery over the heading and the content of a NoteUpdate:
\* the columns the UPDATE sets; a nil pointer is the empty set
UpdateFields(note) ==
    (IF note.heading = {} THEN {} ELSE {"heading"}) \cup
    (IF note.content = {} THEN {} ELSE {"content"})

\* UPDATE notes SET ..., updated_at=NOW() on one row
UpdatedRow(n, note, t) ==
    [n EXCEPT !.heading = IF note.heading = {} THEN @ ELSE CHOOSE h \in note.heading : TRUE,
              !.content = IF note.content = {} THEN @ ELSE CHOOSE c \in note.content : TRUE,
              !.updated_at = t]

\* the CHECK constraints of notes on the row an UPDATE writes
UpdateNoteOk(n) == n.heading # "" /\ n.content # ""

\* ------------------------------------------------------------ state
NoCall == [op |-> "none", userID |-> UuidNil, err |-> NoErr]

Init ==
    /\ users = {}
    /\ tokens = {}
    /\ calls = EmptyBag
    /\ last = NoCall
    /\ minted = {}
    /\ now = 0
    /\ nextUUID = 1
    /\ nextTokenID = 1
    /\ nextSalt = 1
    /\ notes = {}
    /\ reqs = EmptyBag

\* a call in the service: its arguments, where it stands, its locals (the user
\* it resolved, the record it read, the refresh token it generated) and its result
Call(op, pc, email, password, tokenID, userID, tokenDB, err, out) ==
    [op |-> op, pc |-> pc, email |-> email, password |-> password, tokenID |-> tokenID,
     userID |-> userID, tokenDB |-> tokenDB, refreshToken |-> ZeroToken, err |-> err, out |-> out]

\* calls is a bag: a call arrives, moves on, and stays once it has returned
Arrive(r) == calls (+) SetToBag({r})
Move(r, q) == (calls (-) SetToBag({r})) (+) SetToBag({q})
Running(r, op, pc) == r \in BagToSet(calls) /\ r.op = op /\ r.pc = pc
NumCalls == BagCardinality(calls)

Done(r) == r.pc = "done"
Ok(r) == r.pc = "done" /\ r.err = NoErr
Failed(r) == r.pc = "done" /\ r.err # NoErr

\* time.Now() moves on
Tick ==
    /\ now < MaxTime
    /\ now' = now + 1
    /\ UNCHANGED <<users, tokens, calls, last, minted, nextUUID, nextTokenID, nextSalt, notes, reqs>>

\* a Validate that lets every user through
ValidateUser_None(user) == NoErr

\* domain.User.Validate
ValidateUser(user) ==
    IF user.id = UuidNil THEN {"invalid user ID"}
    ELSE IF user.username = "" THEN {"empty username"}
    ELSE IF user.email = "" THEN {"empty email"}
    ELSE IF user.password = NoHash THEN {"empty password"}
    ELSE NoErr

\* AuthS.SignUp over UserR.CreateUser
SignUp(in) ==
    LET h == GenerateHash(in.password, nextSalt)
        input == [id |-> nextUUID, username |-> in.username, email |-> in.email, password |-> h.hash]
        err == IF h.err # NoErr THEN h.err
               ELSE IF ValidateUser(input) # NoErr THEN ValidateUser(input)
               ELSE IF ~InsertUserOk(users, input) THEN MakeError("ErrFailedToCreate", {"constraint"})
               ELSE NoErr
    IN
    /\ nextUUID <= MaxUsers
    /\ nextSalt <= MaxSalt
    /\ users' = IF err = NoErr THEN users \cup {input} ELSE users
    /\ nextUUID' = IF err = NoErr THEN nextUUID + 1 ELSE nextUUID
    /\ nextSalt' = IF err = NoErr THEN nextSalt + 1 ELSE nextSalt
    /\ last' = [op |-> "SignUp", userID |-> IF err = NoErr THEN input.id ELSE UuidNil,
                err |-> err, in |-> in]
    /\ UNCHANGED <<tokens, calls, minted, now, nextTokenID, notes, reqs>>

\* AuthS.generateAndSaveTokens: generateTokens, then TokenR.CreateToken
SaveTokens(r, userID) ==
    LET accessToken == generateAccessToken(userID, now)
        refreshToken == generateRefreshToken(userID, nextTokenID, now)
        err == IF ~InsertTokenOk(users, tokens, refreshToken)
               THEN MakeError("ErrFailedToCreate", {"constraint"})
               ELSE NoErr
    IN
    /\ minted' = minted \cup {[accessToken |-> accessToken, userID |-> userID, at |-> now]}
    /\ tokens' = IF err = NoErr THEN tokens \cup {refreshToken} ELSE tokens
    /\ nextTokenID' = IF err = NoErr THEN nextTokenID + 1 ELSE nextTokenID
    /\ calls' = Move(r, [r EXCEPT !.pc = "done", !.err = err, !.refreshToken = refreshToken,
                            !.out = IF err = NoErr
                                    THEN [AccessToken |-> accessToken, RefreshToken |-> refreshToken.token_id]
                                    ELSE OutZero])

\* AuthS.SignIn, first statement: checkUser = UserR.UserCredentials + ComparePassword
SignIn_checkUser(in) ==
    LET rows == CredRows(users, in.email) IN
    /\ NumCalls < MaxCalls
    /\ IF rows = {} THEN
            calls' = Arrive(Call("SignIn", "done", in.email, in.password, 0, UuidNil, ZeroToken,
                                 MakeError("ErrReceiving", {"ErrNotFound"}), OutZero))
       ELSE \E row \in rows :
            IF ComparePassword(row.password, in.password) # NoErr THEN
                calls' = Arrive(Call("SignIn", "done", in.email, in.password, 0, UuidNil, ZeroToken,
                                     {"ErrIncorrectPassword"}, OutZero))
            ELSE
                calls' = Arrive(Call("SignIn", "CreateToken", in.email, in.password, 0, row.id,
                                     ZeroToken, NoErr, OutZero))
    /\ UNCHANGED <<users, tokens, last, minted, now, nextUUID, nextTokenID, nextSalt, notes, reqs>>

\* AuthS.SignIn, second statement: generateAndSaveTokens
SignIn_CreateToken(r) ==
    /\ Running(r, "SignIn", "CreateToken")
    /\ SaveTokens(r, r.userID)
    /\ UNCHANGED <<users, last, now, nextUUID, nextSalt, notes, reqs>>

\* AuthS.Logout over TokenR.DeleteToken
Logout(tokenID) ==
    LET err == DeleteTokenErr(Cardinality(TokenRows(tokens, tokenID))) IN
    /\ NumCalls < MaxCalls
    /\ tokens' = DeleteTokenRows(tokens, tokenID)
    /\ calls' = Arrive(Call("Logout", "done", "", "", tokenID, UuidNil, ZeroToken, err, OutZero))
    /\ UNCHANGED <<users, last, minted, now, nextUUID, nextTokenID, nextSalt, notes, reqs>>

\* AuthS.RefreshToken, first statement: TokenR.Token
RefreshToken_Token(tokenID) ==
    LET rows == TokenRows(tokens, tokenID) IN
    /\ NumCalls < MaxCalls
    /\ IF rows = {} THEN
            calls' = Arrive(Call("RefreshToken", "done", "", "", tokenID, UuidNil, ZeroToken,
                                 MakeError("ErrReceiving", {"ErrNotFound"}), OutZero))
       ELSE \E tokenDB \in rows :
            calls' = Arrive(Call("RefreshToken", "DeleteToken", "", "", tokenID, tokenDB.user_id,
                                 tokenDB, NoErr, OutZero))
    /\ UNCHANGED <<users, tokens, last, minted, now, nextUUID, nextTokenID, nextSalt, notes, reqs>>

\* AuthS.RefreshToken, second statement: TokenR.DeleteToken
RefreshToken_DeleteToken(r) ==
    LET err == DeleteTokenErr(Cardinality(TokenRows(tokens, r.tokenID))) IN
    /\ Running(r, "RefreshToken", "DeleteToken")
    /\ tokens' = DeleteTokenRows(tokens, r.tokenID)
    /\ calls' = Move(r, [r EXCEPT !.pc = IF err = NoErr THEN "CreateToken" ELSE "done", !.err = err])
    /\ UNCHANGED <<users, last, minted, now, nextUUID, nextTokenID, nextSalt, notes, reqs>>

\* tokenDB.ExpiresAt.Before(time.Now())
TokenExpired(tokenDB, t) == tokenDB.expired_at < t

\* AuthS.RefreshToken, after the delete: the expiry check, then generateAndSaveTokens
RefreshToken_CreateToken(r) ==
    /\ Running(r, "RefreshToken", "CreateToken")
    /\ IF TokenExpired(r.tokenDB, now) THEN
            /\ calls' = Move(r, [r EXCEPT !.pc = "done", !.err = {"token expired"}])
            /\ UNCHANGED <<tokens, minted, nextTokenID>>
       ELSE SaveTokens(r, r.tokenDB.user_id)
    /\ UNCHANGED <<users, last, now, nextUUID, nextSalt, notes, reqs>>

\* UserS.DeleteUser over UserR.DeleteUser; the tokens of the user go with the row
DeleteUser(id) ==
    LET rowsAffected == Cardinality({r \in users : r.id = id})
        err == IF rowsAffected = 0 THEN MakeError("ErrFailedToDelete", {"ErrNotFound"}) ELSE NoErr
    IN
    /\ users' = {r \in users : r.id # id}
    /\ tokens' = CascadeTokens(tokens, id)
    /\ last' = [op |-> "DeleteUser", userID |-> id, err |-> err]
    /\ notes' = CascadeNotes(notes, id)
    /\ UNCHANGED <<calls, minted, now, nextUUID, nextTokenID, nextSalt, reqs>>

\* utils.AddFieldsToQuery over the fields of a domain.UserUpdate: the columns
\* the UPDATE sets; a nil pointer is the empty set
UserUpdateFields(user) ==
    (IF user.Username = {} THEN {} ELSE {"username"}) \cup
    (IF user.Email = {} THEN {} ELSE {"email"}) \cup
    (IF user.Password = {} THEN {} ELSE {"password"}) \cup
    (IF user.ImageURL = {} THEN {} ELSE {"image_url"})

\* UPDATE users SET ..., updated_at=NOW() on one row; image_url and
\* updated_at are columns no operation here reads
UpdatedUser(u, user) ==
    [u EXCEPT !.username = IF user.Username = {} THEN @ ELSE CHOOSE v \in user.Username : TRUE,
              !.email = IF user.Email = {} THEN @ ELSE CHOOSE v \in user.Email : TRUE,
              !.password = IF user.Password = {} THEN @ ELSE CHOOSE v \in user.Password : TRUE]

\* the CHECK and UNIQUE constraints of users on the row an UPDATE writes
UpdateUserOk(tbl, w) ==
    /\ w.username # "" /\ w.email # "" /\ w.password # NoHash
    /\ \A r \in tbl : r.id # w.id => r.username # w.username /\ r.email # w.email

\* domain.UserUpdate.Validate
ValidateUserUpdate(user) ==
    IF user.ID = UuidNil THEN {"invalid user ID"}
    ELSE IF user.Username = {""} THEN {"empty username"}
    ELSE IF user.Email = {""} THEN {"empty email"}
    ELSE IF user.Password = {NoHash} THEN {"empty password"}
    ELSE NoErr

\* UserR.UpdateUser: the error it returns
UpdateUserErr(tbl, user) ==
    LET rows == {u \in tbl : u.id = user.ID} IN
    IF UserUpdateFields(user) = {} THEN MakeError("ErrFailedToUpdate", {"ErrNoFieldsToUpdate"})
    ELSE IF \E u \in rows : ~UpdateUserOk(tbl, UpdatedUser(u, user)) THEN
        MakeError("ErrFailedToUpdate", {"constraint"})
    ELSE IF Cardinality(rows) = 0 THEN MakeError("ErrFailedToUpdate", {"ErrNotFound"})
    ELSE NoErr

\* UserR.UpdateUser: the users table after it
UpdateUserRows(tbl, user) ==
    IF UpdateUserErr(tbl, user) # NoErr THEN tbl
    ELSE {IF u.id = user.ID THEN UpdatedUser(u, user) ELSE u : u \in tbl}

\* UserS.UpdateUser over UserR.UpdateUser
UpdateUser(user) ==
    LET input == [ID |-> user.ID, Username |-> user.Username, Email |-> user.Email,
                  Password |-> {}, ImageURL |-> user.ImageURL]
        err == IF ValidateUserUpdate(input) # NoErr THEN ValidateUserUpdate(input)
               ELSE UpdateUserErr(users, input)
    IN
    /\ users' = IF err = NoErr THEN UpdateUserRows(users, input) ELSE users
    /\ last' = [op |-> "UpdateUser", userID |-> user.ID, err |-> err]
    /\ UNCHANGED <<tokens, calls, minted, now, nextUUID, nextTokenID, nextSalt, notes, reqs>>

\* the UpdateUserPassword calls in flight
PasswordCalls == {r \in BagToSet(reqs) : r.op = "UpdateUserPassword"}
\* reqs is a bag: a call arrives, moves on with the locals it still reads, and
\* leaves when it returns
Begin(r) == reqs (+) SetToBag({r})
Proceed(r, q) == (reqs (-) SetToBag({r})) (+) SetToBag({q})
Return(r) == reqs (-) SetToBag({r})

\* UserS.UpdateUserPassword, first statement: UserR.UserByID
UpdateUserPassword_UserByID(userID, oldPassword, newPassword) ==
    LET rows == {u \in users : u.id = userID}
        r == [op |-> "UpdateUserPassword", pc |-> "UserCredentials", userID |-> userID,
              oldPassword |-> oldPassword, newPassword |-> newPassword,
              email |-> (CHOOSE u \in rows : TRUE).email]
    IN
    /\ BagCardinality(reqs) < MaxPasswordCalls
    /\ IF rows = {} THEN
            /\ last' = [op |-> "UpdateUserPassword", userID |-> userID,
                        err |-> MakeError("ErrReceiving", {"ErrNotFound"})]
            /\ UNCHANGED reqs
       ELSE /\ reqs' = Begin(r)
            /\ UNCHANGED last
    /\ UNCHANGED <<users, tokens, calls, minted, now, nextUUID, nextTokenID, nextSalt, notes>>

\* UserS.UpdateUserPassword, second statement: UserR.UserCredentials on the
\* email read before, its error dropped; then ComparePassword and GenerateHash
UpdateUserPassword_UserCredentials(r) ==
    LET rows == CredRows(users, r.email)
        userID == IF rows = {} THEN UuidNil ELSE (CHOOSE u \in rows : TRUE).id
        oldPassword == IF rows = {} THEN NoHash ELSE (CHOOSE u \in rows : TRUE).password
        h == GenerateHash(r.newPassword, nextSalt)
        Ret(err) == [op |-> "UpdateUserPassword", userID |-> r.userID, err |-> err]
    IN
    /\ r \in PasswordCalls /\ r.pc = "UserCredentials"
    /\ nextSalt <= MaxHashes
    /\ IF ComparePassword(oldPassword, r.oldPassword) # NoErr THEN
            /\ last' = Ret({"ErrIncorrectPassword"})
            /\ reqs' = Return(r)
            /\ UNCHANGED nextSalt
       ELSE IF h.err # NoErr THEN
            /\ last' = Ret(h.err)
            /\ reqs' = Return(r)
            /\ UNCHANGED nextSalt
       ELSE
            /\ reqs' = Proceed(r, [op |-> r.op, pc |-> "UpdateUser", userID |-> r.userID,
                                    credID |-> userID, hashedPassword |-> h.hash])
            /\ nextSalt' = nextSalt + 1
            /\ UNCHANGED last
    /\ UNCHANGED <<users, tokens, calls, minted, now, nextUUID, nextTokenID, notes>>

\* UserS.UpdateUserPassword, third statement: UserR.UpdateUser on the ID that
\* UserCredentials returned
UpdateUserPassword_UpdateUser(r) ==
    LET inputUser == [ID |-> r.credID, Username |-> {}, Email |-> {},
                      Password |-> {r.hashedPassword}, ImageURL |-> {}]
    IN
    /\ r \in PasswordCalls /\ r.pc = "UpdateUser"
    /\ users' = UpdateUserRows(users, inputUser)
    /\ last' = [op |-> "UpdateUserPassword", userID |-> r.userID,
                err |-> UpdateUserErr(users, inputUser)]
    /\ reqs' = Return(r)
    /\ UNCHANGED <<tokens, calls, minted, now, nextUUID, nextTokenID, nextSalt, notes>>

\* AuthS.generateAccessToken called on its own
JwtIssue(userID) ==
    /\ Cardinality(minted) < MaxMinted
    /\ minted' = minted \cup {[accessToken |-> generateAccessToken(userID, now), userID |-> userID, at |-> now]}
    /\ UNCHANGED <<users, tokens, calls, last, now, nextUUID, nextTokenID, nextSalt, notes, reqs>>

\* what a client can make of an issued token without the secret: another
\* subject, a later expiry, another algorithm, a signature under another key,
\* other trailing bits in the last character of the signature
Altered(text) ==
    {[text EXCEPT !.claims.sub = s] : s \in (0..MaxUsers) \cup {SubMissing, SubNotString, SubNotUUID}}
    \cup {[text EXCEPT !.claims.exp = e] : e \in 0..(NumericDate(MaxTime + AccessTokenTTL) + 1)}
    \cup {[text EXCEPT !.hdr.alg = "none"], [text EXCEPT !.hdr.alg = "HS384"]}
    \cup {[text EXCEPT !.mac.key = WrongSecret]}
    \cup {[text EXCEPT !.pad = 1]}

\* a token made from scratch by someone who holds another key
Forged(userID, t) ==
    JwtSign([sub |-> userID, iat |-> NumericDate(t), exp |-> NumericDate(t + AccessTokenTTL)], WrongSecret)

\* AuthS.ParseToken, on any token text
ParseTokenCall(accessToken) ==
    LET res == ParseToken(accessToken, now) IN
    /\ last' = [op |-> "ParseToken", userID |-> res.userID, err |-> res.err,
                accessToken |-> accessToken, at |-> now]
    /\ UNCHANGED <<users, tokens, calls, minted, now, nextUUID, nextTokenID, nextSalt, notes, reqs>>

ParseIssued == \E m \in minted : ParseTokenCall(m.accessToken)

ParseAltered == \E m \in minted : \E text \in Altered(m.accessToken) \ {m.accessToken} : ParseTokenCall(text)

ParseForged == \E userID \in 0..MaxUsers, t \in 0..now : ParseTokenCall(Forged(userID, t))

Next ==
    \/ Tick
    \/ \E in \in SignUpInputs : SignUp(in)
    \/ \E in \in SignInInputs : SignIn_checkUser(in)
    \/ \E r \in BagToSet(calls) : SignIn_CreateToken(r)
    \/ \E tokenID \in 0..(nextTokenID - 1) : Logout(tokenID)
    \/ \E tokenID \in 0..(nextTokenID - 1) : RefreshToken_Token(tokenID)
    \/ \E r \in BagToSet(calls) : RefreshToken_DeleteToken(r)
    \/ \E r \in BagToSet(calls) : RefreshToken_CreateToken(r)

\* the AuthS service over its tables
Spec == Init /\ [][Next]_vars

\* AuthS.RefreshToken, after the delete and the expiry check, when the INSERT of
\* TokenR.CreateToken returns an error: the context of the call was cancelled
\* or the connection failed.  The access token has been generated by then.
RefreshToken_CreateTokenFails(r) ==
    LET userID == r.tokenDB.user_id
        accessToken == generateAccessToken(userID, now)
        refreshToken == generateRefreshToken(userID, nextTokenID, now)
    IN
    /\ Running(r, "RefreshToken", "CreateToken")
    /\ ~TokenExpired(r.tokenDB, now)
    /\ minted' = minted \cup {[accessToken |-> accessToken, userID |-> userID, at |-> now]}
    /\ calls' = Move(r, [r EXCEPT !.pc = "done", !.refreshToken = refreshToken,
                                  !.err = MakeError("ErrFailedToCreate", {"context canceled"})])
    /\ nextTokenID' = nextTokenID + 1
    /\ UNCHANGED <<users, tokens, last, now, nextUUID, nextSalt, notes, reqs>>

\* AuthS over a store whose INSERT into tokens can fail
NextFaults ==
    \/ Next
    \/ \E r \in BagToSet(calls) : RefreshToken_CreateTokenFails(r)

SpecFaults == Init /\ [][NextFaults]_vars

\* the dto.UserUpdate fields offered to UserS.UpdateUser: a nil pointer, or a
\* pointer to a string
UsernamePtrs == {{}, {""}}
EmailPtrs == {{}, {""}, {"b@x.com"}}
ImageURLPtrs == {{}}
\* the dto.UserUpdPassword values offered to UserS.UpdateUserPassword: the
\* password of the first account as the old one, and one new password
OldPasswords == {"secure123"}
NewPasswords == {"password2"}

\* AuthS together with the UserS operations that delete a user, update a user
\* or change a password, for a deployment of few accounts and few calls
NextUsers ==
    \/ Next /\ BagCardinality(calls') <= MaxUserCalls /\ nextUUID' <= MaxAccounts + 1
    \/ \E id \in 0..(nextUUID - 1) : DeleteUser(id)
    \/ \E id \in 0..(nextUUID - 1), username \in UsernamePtrs, email \in EmailPtrs,
          image \in ImageURLPtrs :
            UpdateUser([ID |-> id, Username |-> username, Email |-> email, ImageURL |-> image])
    \/ \E id \in 1..(nextUUID - 1), old \in OldPasswords, new \in NewPasswords :
            UpdateUserPassword_UserByID(id, old, new)
    \/ \E r \in BagToSet(reqs) : UpdateUserPassword_UserCredentials(r)
    \/ \E r \in BagToSet(reqs) : UpdateUserPassword_UpdateUser(r)

SpecUsers == Init /\ [][NextUsers]_vars

\* the token codec on its own: issue, let time pass, present a token
NextJwt ==
    \/ Tick
    \/ \E userID \in 0..MaxUsers : JwtIssue(userID)
    \/ ParseIssued
    \/ ParseAltered
    \/ ParseForged

SpecJwt == Init /\ [][NextJwt]_vars

\* the sub claims a holder of the secret can sign: the user IDs, no sub, a
\* sub that is a number, a sub that is a string and not a UUID
Subjects == (0..MaxUsers) \cup {SubMissing, SubNotString, SubNotUUID}

\* a token signed with the secret of the service, with any sub claim, as
\* TestAuthS_ParseToken makes them
Signed(sub, t) ==
    JwtSign([sub |-> sub, iat |-> NumericDate(t), exp |-> NumericDate(t + AccessTokenTTL)], JwtSecret)

ParseSigned == \E sub \in Subjects, t \in 0..now : ParseTokenCall(Signed(sub, t))

\* the token codec, with ParseToken also called on tokens that carry a valid
\* signature over any sub claim
NextSubjects ==
    \/ NextJwt
    \/ ParseSigned

SpecSubjects == Init /\ [][NextSubjects]_vars

\* the passwords given to the hasher on its own: empty, a single 0x00 byte, of
\* exactly and of more than BcryptMaxBytes bytes, and one that repeats another
\* after a 0x00 byte
HasherPasswords ==
    {"", Nul, LongPrefix, "secure123" \o Nul \o "secure123"} \cup Passwords \cup LongPasswords
\* the GenerateHash calls recorded by the latest hasher call
Made == IF last.op \in {"GenerateHash", "ComparePassword"} THEN last.made ELSE {}

\* Hasher.GenerateHash called on its own
HasherGenerate(password) ==
    /\ nextSalt <= MaxSalt
    /\ \E res \in GenerateHashResults(password, nextSalt) :
        LET call == [n |-> nextSalt, password |-> password, hash |-> res.hash, err |-> res.err] IN
        last' = [op |-> "GenerateHash", password |-> password, hash |-> res.hash, err |-> res.err,
                 made |-> Made \cup {call}]
    /\ nextSalt' = nextSalt + 1
    /\ UNCHANGED <<users, tokens, calls, minted, now, nextUUID, nextTokenID, notes, reqs>>

\* Hasher.ComparePassword called on a hash GenerateHash returned, or on the empty hash
HasherCompare(hash, password) ==
    /\ last' = [op |-> "ComparePassword", password |-> password, hash |-> hash,
                err |-> ComparePassword(hash, password), made |-> Made]
    /\ UNCHANGED <<users, tokens, calls, minted, now, nextUUID, nextTokenID, nextSalt, notes, reqs>>

NextHasher ==
    \/ \E password \in HasherPasswords : HasherGenerate(password)
    \/ \E hash \in {c.hash : c \in Made} \cup {NoHash}, password \in HasherPasswords :
            HasherCompare(hash, password)

SpecHasher == Init /\ [][NextHasher]_vars

\* registration on its own, over every shape of request
NextSignUp == \E in \in SignUpRequests : SignUp(in)

SpecSignUp == Init /\ [][NextSignUp]_vars

\* ---------------------------------------------------------- the notes
\* note IDs and owner IDs offered to NoteR
NoteIDs == 1..MaxNotes
OwnerIDs == 1..MaxUsers
\* the users that sign up to own notes
NoteOwners ==
    { [username |-> "alice", email |-> "a@x.com", password |-> "secure123"],
      [username |-> "bob", email |-> "b@x.com", password |-> "password2"] }
Headings == {"", "todo"}
Contents == {"", "milk"}
\* the Heading and Content of a NoteUpdate: a nil pointer, or a pointer to a string
HeadingPtrs == {{}, {""}, {"done"}}
ContentPtrs == {{}, {"milk"}}
\* domain.Note{}
NoteZero == [id |-> UuidNil, user_id |-> UuidNil, heading |-> "", content |-> "",
             created_at |-> 0, updated_at |-> 0]

\* NoteR.CreateNote
CreateNote(note) ==
    LET row == [id |-> note.id, user_id |-> note.user_id, heading |-> note.heading,
                content |-> note.content, created_at |-> now, updated_at |-> now]
        err == IF InsertNoteOk(notes, users, note) THEN NoErr
               ELSE MakeError("ErrFailedToCreate", {"constraint"})
    IN
    /\ notes' = IF err = NoErr THEN notes \cup {row} ELSE notes
    /\ last' = [op |-> "CreateNote", userID |-> note.user_id, noteID |-> note.id, err |-> err]
    /\ UNCHANGED <<users, tokens, calls, minted, now, nextUUID, nextTokenID, nextSalt, reqs>>

\* NoteR.Note
Note(userID, noteID) ==
    LET rows == NoteRows(notes, userID, noteID) IN
    /\ last' = [op |-> "Note", userID |-> userID, noteID |-> noteID,
                out |-> IF rows = {} THEN NoteZero ELSE CHOOSE n \in rows : TRUE,
                err |-> IF rows = {} THEN MakeError("ErrReceiving", {"ErrNotFound"}) ELSE NoErr]
    /\ UNCHANGED <<users, tokens, calls, minted, now, nextUUID, nextTokenID, nextSalt, notes, reqs>>

\* NoteR.UpdateNote
UpdateNote(note) ==
    LET rows == NoteRows(notes, note.user_id, note.id)
        written == {UpdatedRow(n, note, now) : n \in rows}
        err == IF UpdateFields(note) = {} THEN
                    MakeError("ErrFailedToUpdate", {"ErrNoFieldsToUpdate"})
               ELSE IF \E n \in written : ~UpdateNoteOk(n) THEN
                    MakeError("ErrFailedToUpdate", {"constraint"})
               ELSE IF Cardinality(rows) = 0 THEN
                    MakeError("ErrFailedToUpdate", {"ErrNotFound"})
               ELSE NoErr
    IN
    /\ notes' = IF err = NoErr THEN (notes \ rows) \cup written ELSE notes
    /\ last' = [op |-> "UpdateNote", userID |-> note.user_id, noteID |-> note.id, err |-> err]
    /\ UNCHANGED <<users, tokens, calls, minted, now, nextUUID, nextTokenID, nextSalt, reqs>>

\* NoteR.DeleteNote
DeleteNote(userID, noteID) ==
    LET rows == NoteRows(notes, userID, noteID)
        err == IF Cardinality(rows) = 0 THEN MakeError("ErrFailedToDelete", {"sql.ErrNoRows"})
               ELSE NoErr
    IN
    /\ notes' = notes \ rows
    /\ last' = [op |-> "DeleteNote", userID |-> userID, noteID |-> noteID, err |-> err]
    /\ UNCHANGED <<users, tokens, calls, minted, now, nextUUID, nextTokenID, nextSalt, reqs>>

\* the notes of the registered users: users sign up and are deleted, notes
\* are created, read, updated and deleted, and time moves on
NextNotes ==
    \/ \E in \in NoteOwners : SignUp(in)
    \/ \E id \in 1..(nextUUID - 1) : DeleteUser(id)
    \/ \E id \in NoteIDs, userID \in OwnerIDs, heading \in Headings, content \in Contents :
            CreateNote([id |-> id, user_id |-> userID, heading |-> heading, content |-> content])
    \/ \E userID \in OwnerIDs, noteID \in NoteIDs : Note(userID, noteID)
    \/ \E id \in NoteIDs, userID \in OwnerIDs, heading \in HeadingPtrs, content \in ContentPtrs :
            UpdateNote([id |-> id, user_id |-> userID, heading |-> heading, content |-> content])
    \/ \E userID \in OwnerIDs, noteID \in NoteIDs : DeleteNote(userID, noteID)
    \/ Tick

SpecNotes == Init /\ [][NextNotes]_vars

\* ------------------------------------------------------ the notes list
\* dto.Paginated values offered to NoteS.Notes, which does not validate them:
\* a negative and a zero limit and a negative offset among them
Limits == -1..MaxNotes
Offsets == -1..MaxNotes
\* dto.NoteOutput{}
NoteOutputZero ==
    [id |-> UuidNil, user_id |-> UuidNil, heading |-> "", content |-> "", done |-> FALSE,
     created_at |-> 0, updated_at |-> 0]
\* dto.PaginatedResponse{}
PaginatedZero == [Data |-> <<>>, Total |-> 0, Page |-> 0, Limit |-> 0, TotalPages |-> 0]

\* noteDomainToDTO
noteDomainToDTO(note) ==
    [id |-> note.id, user_id |-> note.user_id, heading |-> note.heading, content |-> note.content,
     done |-> FALSE, created_at |-> note.created_at, updated_at |-> note.updated_at]

\* ORDER BY created_at ASC: the orders in which the rows can come back; rows
\* with equal created_at come in any order
OrderedByCreatedAt(rows) ==
    {s \in [1..Cardinality(rows) -> rows] :
        /\ \A i, j \in DOMAIN s : i # j => s[i] # s[j]
        /\ \A i, j \in DOMAIN s : i < j => s[i].created_at <= s[j].created_at}

\* NoteR.Notes, first statement: SELECT COUNT(*) FROM notes WHERE user_id=$1
CountNotes(tbl, userID) == Cardinality({n \in tbl : n.user_id = userID})

\* NoteR.Notes, second statement: the database refuses a negative LIMIT or OFFSET
SelectNotesErr(p) ==
    IF p.Limit < 0 \/ p.Offset < 0 THEN MakeError("ErrReceiving", {"sql"}) ELSE NoErr

\* NoteR.Notes, second statement: LIMIT $2 OFFSET $3 on the rows in the order
\* the SELECT returns them
SelectNotes(ordered, p) ==
    IF p.Limit = 0 \/ p.Offset >= Len(ordered) THEN <<>>
    ELSE SubSeq(ordered, p.Offset + 1,
                IF p.Offset + p.Limit > Len(ordered) THEN Len(ordered) ELSE p.Offset + p.Limit)

\* the slice NoteS.Notes hands on: make([]dto.NoteOutput, len(notesDB)) holds
\* len(notesDB) zero values, and each mapped note is appended after them
MappedNotes(notesDB) ==
    [i \in 1..Len(notesDB) |-> NoteOutputZero] \o [i \in 1..Len(notesDB) |-> noteDomainToDTO(notesDB[i])]

\* dto.MakePaginatedResponse
MakePaginatedResponse(data, total, offset, limit) ==
    [Data |-> data, Total |-> total, Page |-> (offset \div limit) + 1, Limit |-> limit,
     TotalPages |-> (total \div limit) + (IF total % limit # 0 THEN 1 ELSE 0)]

\* what a NoteS.Notes call returned
NotesResult(userID, p, notesDB, total, err, out) ==
    [op |-> "Notes", userID |-> userID, err |-> err, p |-> p, notesDB |-> notesDB,
     total |-> total, out |-> out]

\* NoteS.Notes over NoteR.Notes, first statement: the count; no note, or an
\* offset past the count, and the call returns the empty response
Notes_Count(userID, p) ==
    LET total == CountNotes(notes, userID) IN
    /\ BagCardinality(reqs) < MaxListCalls
    /\ IF total = 0 \/ total <= p.Offset THEN
            /\ last' = NotesResult(userID, p, <<>>, 0, NoErr, PaginatedZero)
            /\ UNCHANGED reqs
       ELSE /\ reqs' = Begin([op |-> "Notes", pc |-> "SELECT", userID |-> userID, p |-> p,
                              total |-> total])
            /\ UNCHANGED last
    /\ UNCHANGED <<users, tokens, calls, minted, now, nextUUID, nextTokenID, nextSalt, notes>>

\* NoteS.Notes over NoteR.Notes, second statement: the page, read from the
\* table as it is now, with the total counted before; then the mapping and
\* MakePaginatedResponse, whose division panics on a limit of 0
Notes_Select(r) ==
    /\ r \in BagToSet(reqs) /\ r.op = "Notes" /\ r.pc = "SELECT"
    /\ IF SelectNotesErr(r.p) # NoErr THEN
            last' = NotesResult(r.userID, r.p, <<>>, 0, SelectNotesErr(r.p), PaginatedZero)
       ELSE \E ordered \in OrderedByCreatedAt({n \in notes : n.user_id = r.userID}) :
            LET notesDB == SelectNotes(ordered, r.p) IN
            last' = IF r.p.Limit = 0 THEN
                        NotesResult(r.userID, r.p, notesDB, r.total,
                                    {"panic: integer divide by zero"}, PaginatedZero)
                    ELSE NotesResult(r.userID, r.p, notesDB, r.total, NoErr,
                                     MakePaginatedResponse(MappedNotes(notesDB), r.total,
                                                           r.p.Offset, r.p.Limit))
    /\ reqs' = Return(r)
    /\ UNCHANGED <<users, tokens, calls, minted, now, nextUUID, nextTokenID, nextSalt, notes>>

\* the users sign up and are deleted, their notes are created, updated and
\* deleted, time passes, and the notes of a user are listed, for a deployment
\* of few accounts
NextNotesList ==
    \/ \E in \in NoteOwners : SignUp(in) /\ nextUUID' <= MaxAccounts + 1
    \/ \E id \in 1..(nextUUID - 1) : DeleteUser(id)
    \/ \E id \in NoteIDs, userID \in OwnerIDs :
            CreateNote([id |-> id, user_id |-> userID, heading |-> "todo", content |-> "milk"])
    \/ \E id \in NoteIDs, userID \in OwnerIDs :
            UpdateNote([id |-> id, user_id |-> userID, heading |-> {"done"}, content |-> {}])
    \/ \E userID \in OwnerIDs, noteID \in NoteIDs : DeleteNote(userID, noteID)
    \/ \E userID \in OwnerIDs, limit \in Limits, offset \in Offsets :
            Notes_Count(userID, [Limit |-> limit, Offset |-> offset])
    \/ \E r \in BagToSet(reqs) : Notes_Select(r)
    \/ Tick

SpecNotesList == Init /\ [][NextNotesList]_vars

\* ----------------------------------------------------------- handlers
\* err.Error(): the text of an error of the service; MakeError prints the
\* kind, the object and the cause
ErrorText(op, err) ==
    IF err = {"ErrIncorrectPassword"} THEN "incorrect password"
    ELSE IF err = {"token expired"} THEN "token expired"
    ELSE IF err = MakeError("ErrReceiving", {"ErrNotFound"}) THEN
        IF op = "SignIn" THEN "receiving error user: not found"
        ELSE "receiving error token: not found"
    ELSE IF err = MakeError("ErrFailedToDelete", {"ErrNotFound"}) THEN "failed to delete token: not found"
    ELSE IF err = MakeError("ErrFailedToCreate", {"constraint"}) THEN "failed to create token: constraint"
    ELSE ""

\* newErrorResponse / newSuccessResponse, with the cookie the handler sets
newErrorResponse(statusCode, message) ==
    [status |-> statusCode, error |-> message, cookie |-> 0, accessToken |-> EmptyJwt]
newSuccessResponse(statusCode, out) ==
    [status |-> statusCode, error |-> "", cookie |-> out.RefreshToken, accessToken |-> out.AccessToken]

\* the email tag of the validator: one "@" with text on both sides of it
IsEmail(email) ==
    /\ \E i \in 2..(Len(email) - 1) : SubSeq(email, i, i) = "@"
    /\ \A i, j \in 1..Len(email) :
            (SubSeq(email, i, i) = "@" /\ SubSeq(email, j, j) = "@") => i = j

\* valid.ValidateStruct on dto.UserSignIn: email required and well-formed,
\* password of 8 to 72 characters
ValidateSignIn(email, password) ==
    email # "" /\ IsEmail(email) /\ Len(password) >= 8 /\ Len(password) <= 72

\* authH.signIn: the response to the request whose service call is r
signIn(r) ==
    IF ~ValidateSignIn(r.email, r.password) THEN newErrorResponse(400, "validation")
    ELSE IF r.err # NoErr THEN newErrorResponse(500, ErrorText(r.op, r.err))
    ELSE newSuccessResponse(200, r.out)

\* authH.refresh: the response to the request whose service call is r
refresh(r) ==
    IF r.tokenID = 0 THEN newErrorResponse(401, "token ID not found in cookie")
    ELSE IF r.err # NoErr THEN newErrorResponse(500, ErrorText(r.op, r.err))
    ELSE newSuccessResponse(200, r.out)

\* the Authorization header of a request: absent, "Bearer " and the text of a
\* refresh token ID, or "Bearer " and an access token
NoBearer == [kind |-> "none", id |-> 0, jwt |-> EmptyJwt]
BearerID(id) == [kind |-> "uuid", id |-> id, jwt |-> EmptyJwt]
BearerJwt(jwt) == [kind |-> "jwt", id |-> 0, jwt |-> jwt]

\* getAccessToken: the second word of the Authorization header
getAccessToken(bearer) ==
    IF bearer.kind = "none" THEN [token |-> NoBearer, err |-> {"empty authorization header"}]
    ELSE [token |-> bearer, err |-> NoErr]

\* the token ID that the text of a header value is: a compact JWT is the ID
\* of no record, as 0 is
HeaderTokenID(token) == IF token.kind = "uuid" THEN token.id ELSE 0

\* authH.logout on a request with a refresh_token cookie (0: none) and an
\* Authorization header: getAccessToken, AuthS.Logout on its result, the response
logout(req) ==
    LET got == getAccessToken(req.bearer)
        tokenID == HeaderTokenID(got.token)
        err == DeleteTokenErr(Cardinality(TokenRows(tokens, tokenID)))
        Answer(resp) == [op |-> "logout", userID |-> UuidNil, err |-> NoErr, req |-> req, resp |-> resp]
    IN
    /\ IF got.err # NoErr THEN
            /\ last' = Answer(newErrorResponse(401, "empty authorization header"))
            /\ UNCHANGED <<tokens, calls>>
       ELSE
            /\ NumCalls < MaxCalls
            /\ tokens' = DeleteTokenRows(tokens, tokenID)
            /\ calls' = Arrive(Call("Logout", "done", "", "", tokenID, UuidNil, ZeroToken, err, OutZero))
            /\ last' = Answer(IF err # NoErr THEN newErrorResponse(500, ErrorText("Logout", err))
                              ELSE newSuccessResponse(200, OutZero))
    /\ UNCHANGED <<users, minted, now, nextUUID, nextTokenID, nextSalt, notes, reqs>>

\* the requests a client can send to the logout endpoint
LogoutRequests ==
    [cookie : 0..(nextTokenID - 1),
     bearer : {NoBearer} \cup {BearerID(id) : id \in 1..(nextTokenID - 1)}
                \cup {BearerJwt(m.accessToken) : m \in minted}]

\* the service behind the HTTP logout endpoint: sign-up, sign-in and refresh
\* as before, logout through authH.logout
NextHttp ==
    \/ \E in \in SignUpInputs : SignUp(in)
    \/ \E in \in SignInInputs : SignIn_checkUser(in)
    \/ \E r \in BagToSet(calls) : SignIn_CreateToken(r)
    \/ \E req \in LogoutRequests : logout(req)
    \/ \E tokenID \in 0..(nextTokenID - 1) : RefreshToken_Token(tokenID)
    \/ \E r \in BagToSet(calls) : RefreshToken_DeleteToken(r)
    \/ \E r \in BagToSet(calls) : RefreshToken_CreateToken(r)

SpecHttp == Init /\ [][NextHttp]_vars

\* the value gin keeps under a key of the request context: absent, or a value
\* with its dynamic type
NoValue == [exists |-> FALSE, type |-> "", value |-> UuidNil]
\* c.Set(userIDKey, userID) with userID of type uuid.UUID
SetUserID(userID) == [exists |-> TRUE, type |-> "uuid.UUID", value |-> userID]

\* getRefreshToken: the refresh_token cookie, an error when it is absent or empty
getRefreshToken(cookie) ==
    IF cookie = 0 THEN [tokenID |-> 0, err |-> {"token ID not found in cookie"}]
    ELSE [tokenID |-> cookie, err |-> NoErr]

\* the access token that the text of a header value is: the text of a token
\* ID is no JWT and parses as none
HeaderJwt(token) == IF token.kind = "jwt" THEN token.jwt ELSE EmptyJwt

\* getUserID: the value under userIDKey, asserted to be a string, parsed as a
\* UUID, and refused when it is uuid.Nil
getUserID(ctx) ==
    IF ~ctx.exists THEN [userID |-> UuidNil, err |-> {"user id not found in context"}]
    ELSE IF ctx.type # "string" THEN [userID |-> UuidNil, err |-> {"invalid user id format"}]
    ELSE IF ctx.value \in {SubMissing, SubNotString, SubNotUUID}
        THEN [userID |-> UuidNil, err |-> {"user id is not uuid"}]
    ELSE IF ctx.value = UuidNil THEN [userID |-> UuidNil, err |-> {"invalid user id"}]
    ELSE [userID |-> ctx.value, err |-> NoErr]

\* Handler.authMiddleware on a request, then the getUserID of the handler
\* behind it (userH.userByID) when the request is admitted
authMiddleware(req) ==
    LET cookie == getRefreshToken(req.cookie)
        header == getAccessToken(req.bearer)
        parsed == ParseToken(HeaderJwt(header.token), now)
        Answer(admitted, ctx, got) ==
            [op |-> "authMiddleware", userID |-> parsed.userID, err |-> NoErr, req |-> req,
             admitted |-> admitted, ctx |-> ctx, got |-> got]
        Aborted == Answer(FALSE, NoValue, getUserID(NoValue))
    IN
    /\ last' = IF cookie.err # NoErr THEN Aborted
               ELSE IF header.err # NoErr THEN Aborted
               ELSE IF parsed.err # NoErr THEN Aborted
               ELSE Answer(TRUE, SetUserID(parsed.userID), getUserID(SetUserID(parsed.userID)))
    /\ UNCHANGED <<users, tokens, calls, minted, now, nextUUID, nextTokenID, nextSalt, notes, reqs>>

\* the requests a client can send to a route behind authMiddleware
AuthRequests ==
    [cookie : 0..1,
     bearer : {NoBearer, BearerID(1)} \cup {BearerJwt(m.accessToken) : m \in minted}
                \cup {BearerJwt(Forged(userID, now)) : userID \in 1..MaxUsers}]

\* the routes behind authMiddleware: tokens are issued, time passes, requests arrive
NextMiddleware ==
    \/ Tick
    \/ \E userID \in 1..MaxUsers : JwtIssue(userID)
    \/ \E req \in AuthRequests : authMiddleware(req)

SpecMiddleware == Init /\ [][NextMiddleware]_vars

\* ---------------------------------------------------------- properties
Calls == BagToSet(calls)
Refreshes(A) == {r \in Calls : r.op = "RefreshToken" /\ r.tokenID = A}
Logouts(A) == {r \in Calls : r.op = "Logout" /\ r.tokenID = A}
\* how many calls of the set S were made
Count(S) == BagCardinality([r \in S |-> calls[r]])
UserExists(userID) == \E u \in users : u.id = userID
IssuedIDs == 1..(nextTokenID - 1)
\* the call that arrives in this step, if one does
Arrived(r) ==
    /\ BagCardinality(calls') = BagCardinality(calls) + 1
    /\ r \in BagToSet(calls') /\ CopiesIn(r, calls') > CopiesIn(r, calls)
\* the calls that issued the refresh token A
Issuers(A) == {r \in Calls : Ok(r) /\ r.op \in {"SignIn", "RefreshToken"} /\ r.out.RefreshToken = A}

\* C1: N >= 2 RefreshToken(A) calls that all read the live record A, with A
\* unexpired throughout, its owner present and no Logout(A) taking it: once
\* all have returned, exactly one has succeeded and the others have an error.
C1_ExactlyOneRefreshWins ==
    \A A \in IssuedIDs :
        LET R == Refreshes(A) IN
        ( /\ Count(R) >= 2
          /\ \A r \in R : Done(r) /\ r.tokenDB # ZeroToken /\ ~TokenExpired(r.tokenDB, now)
                          /\ UserExists(r.tokenDB.user_id)
          /\ \A l \in Logouts(A) : ~Ok(l) )
        => /\ Count({r \in R : Ok(r)}) = 1
           /\ Count({r \in R : Failed(r)}) = Count(R) - 1

C1_Witness ==
    \E A \in IssuedIDs :
        /\ Count(Refreshes(A)) >= 2
        /\ \A r \in Refreshes(A) : Done(r) /\ r.tokenDB # ZeroToken /\ ~TokenExpired(r.tokenDB, now)
        /\ \E r \in Refreshes(A) : Ok(r)
        /\ \E r \in Refreshes(A) : Failed(r) /\ "ErrFailedToDelete" \in r.err

\* C2: a refresh token is used once.  A successful RefreshToken(A) returns a
\* refresh token ID other than A; the only RefreshToken(A) made on a live,
\* unexpired A succeeds; and once a RefreshToken(A) has succeeded, every
\* RefreshToken(A) that arrives later fails.
C2_Rotates ==
    \A r \in Calls : r.op = "RefreshToken" /\ Ok(r) =>
        r.out.RefreshToken # r.tokenID /\ r.out.RefreshToken # 0

C2_FirstSucceeds ==
    \A A \in IssuedIDs : \A r \in Refreshes(A) :
        ( /\ Count(Refreshes(A)) = 1 /\ Done(r)
          /\ r.tokenDB # ZeroToken /\ ~TokenExpired(r.tokenDB, now) /\ UserExists(r.tokenDB.user_id)
          /\ \A l \in Logouts(A) : ~Ok(l) )
        => Ok(r)

C2_LaterFails ==
    \A A \in IssuedIDs :
        (\E r \in Refreshes(A) : Ok(r)) =>
            \A q \in BagToSet(calls') :
                (Arrived(q) /\ q.op = "RefreshToken" /\ q.tokenID = A) => Failed(q)

C2_SingleUse == [](C2_Rotates /\ C2_FirstSucceeds) /\ [][C2_LaterFails]_vars

C2_Witness ==
    \E A \in IssuedIDs :
        /\ \E r \in Refreshes(A) : Ok(r) /\ r.out.RefreshToken \in IssuedIDs \ {A}
        /\ \E q \in Refreshes(A) : Failed(q) /\ q.tokenDB = ZeroToken

\* C3: once a Logout(A) has succeeded, every RefreshToken(A) that arrives
\* fails at once and leaves the tokens table as it was.
C3_Step ==
    \A A \in IssuedIDs :
        (\E l \in Logouts(A) : Ok(l)) =>
            \A q \in BagToSet(calls') :
                (Arrived(q) /\ q.op = "RefreshToken" /\ q.tokenID = A) =>
                    Failed(q) /\ tokens' = tokens /\ nextTokenID' = nextTokenID

C3_LogoutThenRefreshFails == [][C3_Step]_vars

C3_Witness ==
    \E A \in IssuedIDs :
        /\ \E l \in Logouts(A) : Ok(l)
        /\ \E q \in Refreshes(A) : Failed(q) /\ q.tokenDB = ZeroToken
        /\ \A q \in Refreshes(A) : ~Ok(q)

\* C4: one RefreshToken(A) and one Logout(A) on an issued, unexpired A, in any
\* interleaving: once both have returned exactly one of them has succeeded,
\* and if it is the Logout, the RefreshToken returned no tokens.
C4_RefreshOrLogout ==
    \A A \in IssuedIDs : \A r \in Refreshes(A) : \A l \in Logouts(A) :
        ( /\ Count(Refreshes(A)) = 1 /\ Count(Logouts(A)) = 1
          /\ Done(r) /\ Done(l)
          /\ \A i \in Issuers(A) : ~TokenExpired(i.refreshToken, now) /\ UserExists(i.refreshToken.user_id) )
        => /\ Ok(r) # Ok(l)
           /\ Ok(l) => r.out = OutZero

C4_Witness ==
    \E A \in IssuedIDs : \E r \in Refreshes(A) : \E l \in Logouts(A) :
        /\ Count(Refreshes(A)) = 1 /\ Count(Logouts(A)) = 1
        /\ r.tokenDB # ZeroToken /\ Failed(r) /\ Ok(l)
        /\ \A i \in Issuers(A) : ~TokenExpired(i.refreshToken, now)

\* C5: a Logout(A) that arrives when the tokens table holds no record A
\* returns an error and leaves the table as it was.
C5_Step ==
    \A q \in BagToSet(calls') :
        (Arrived(q) /\ q.op = "Logout" /\ TokenRows(tokens, q.tokenID) = {}) =>
            Failed(q) /\ tokens' = tokens

C5_LogoutNotIdempotent == [][C5_Step]_vars

C5_Witness ==
    \E A \in IssuedIDs :
        /\ \E l \in Logouts(A) : Ok(l)
        /\ \E l \in Logouts(A) : Failed(l) /\ "ErrNotFound" \in l.err

\* ParseToken, called now on tok, returns the user ID u and no error
VerifiesTo(tok, u) == ParseToken(tok, now) = [userID |-> u, err |-> NoErr]
\* the exp claim of tok lies after the current second
Unexpired(tok) == NumericDate(now) < tok.claims.exp
SessionCalls == {r \in Calls : r.op \in {"SignIn", "RefreshToken"}}
\* the user registered with this email and password, if there is one
Registered(email, password) ==
    {u \in users : u.email = email /\ ComparePassword(u.password, password) = NoErr}

\* C6: the session flow.  A successful SignUp leaves a user that SignIn with
\* the same email and password resolves; that SignIn returns an access token
\* ParseToken verifies to the user and a refresh token; RefreshToken on that
\* refresh token returns a new pair whose access token verifies to the same
\* user, and the old refresh token is gone from the tokens table.
C6_SignUpRegisters ==
    (last.op = "SignUp" /\ last.err = NoErr) =>
        \E u \in Registered(last.in.email, last.in.password) : u.id = last.userID

C6_PairVerifies ==
    \A r \in SessionCalls :
        /\ (r.op = "SignIn" /\ Done(r) /\ r.userID # UuidNil) => Ok(r)
        /\ Ok(r) => /\ r.out.RefreshToken \in IssuedIDs
                    /\ Unexpired(r.out.AccessToken) => VerifiesTo(r.out.AccessToken, r.userID)

C6_RefreshKeepsUser ==
    \A A \in IssuedIDs : \A i \in Issuers(A) : \A r \in Refreshes(A) :
        /\ Ok(r) => /\ r.userID = i.userID
                    /\ r.out.RefreshToken # A
                    /\ TokenRows(tokens, A) = {}
        /\ ( /\ Count(Refreshes(A)) = 1 /\ Done(r) /\ Logouts(A) = {}
             /\ ~TokenExpired(i.refreshToken, now) ) => Ok(r)

C6_SignInResolves ==
    \A q \in BagToSet(calls') :
        (Arrived(q) /\ q.op = "SignIn") =>
            \A u \in Registered(q.email, q.password) :
                q.pc = "CreateToken" /\ q.userID = u.id

C6_SessionFlow ==
    /\ [](C6_SignUpRegisters /\ C6_PairVerifies /\ C6_RefreshKeepsUser)
    /\ [][C6_SignInResolves]_vars

C6_Witness ==
    \E s \in Calls : \E u \in users :
        /\ s.op = "SignIn" /\ Ok(s) /\ s.userID = u.id /\ s.email = u.email
        /\ \E r \in Refreshes(s.out.RefreshToken) :
            /\ Ok(r) /\ VerifiesTo(r.out.AccessToken, u.id)
            /\ r.out.AccessToken # s.out.AccessToken
        /\ \E q \in Refreshes(s.out.RefreshToken) : Failed(q) /\ q.tokenDB = ZeroToken

\* the latest call is ParseToken on the access token of the record m of minted
ParsedIssued(m) == last.op = "ParseToken" /\ m \in minted /\ last.accessToken = m.accessToken

\* C7, as the claim states it: a token generateAccessToken produced for u is
\* accepted, and verifies to u, at any time before its TTL has elapsed.
C7_Original ==
    \A m \in minted :
        (ParsedIssued(m) /\ last.at < m.at + AccessTokenTTL) =>
            last.err = NoErr /\ last.userID = m.userID

\* C7, amended: a token generateAccessToken produced for u at time t is
\* accepted, and verifies to exactly u, at any time whose whole second is
\* before the whole second of t + AccessTokenTTL.
C7_RoundTrip ==
    \A m \in minted :
        (ParsedIssued(m) /\ NumericDate(last.at) < NumericDate(m.at + AccessTokenTTL)) =>
            last.err = NoErr /\ last.userID = m.userID

C7_Witness ==
    \E m \in minted :
        /\ ParsedIssued(m) /\ m.userID # UuidNil
        /\ m.at < last.at /\ NumericDate(last.at) < NumericDate(m.at + AccessTokenTTL)
        /\ last.err = NoErr /\ last.userID = m.userID

\* C8: ParseToken rejects a token whose exp claim is at or before the time of
\* the call; a token generateAccessToken produced at time t is rejected at
\* every time from t + AccessTokenTTL on.
C8_ExpiredRejected ==
    /\ (last.op = "ParseToken" /\ last.accessToken.claims.exp * TicksPerSec <= last.at) =>
            last.err # NoErr /\ last.userID = UuidNil
    /\ \A m \in minted :
            now >= m.at + AccessTokenTTL => ParseToken(m.accessToken, now).err # NoErr

C8_Witness ==
    \E m \in minted :
        /\ ParsedIssued(m) /\ last.at >= m.at + AccessTokenTTL
        /\ last.err = {"invalid token"} /\ last.userID = UuidNil

\* the decoded header, payload and signature of the tokens issued so far
IssuedContent == {JwtDecode(m.accessToken) : m \in minted}

\* C9: ParseToken returns an error and no user ID for a token signed with a
\* secret other than the configured one, and for a token whose header, payload
\* or signature is not that of a token the service issued.
C9_ForgedRejected ==
    ( /\ last.op = "ParseToken"
      /\ \/ last.accessToken.mac.key # JwtSecret
         \/ JwtDecode(last.accessToken) \notin IssuedContent )
    => last.err # NoErr /\ last.userID = UuidNil

C9_Witness ==
    /\ last.op = "ParseToken"
    /\ last.accessToken.mac.key = JwtSecret
    /\ last.accessToken.claims.sub \in 1..MaxUsers
    /\ last.accessToken.mac.claims.sub \in (1..MaxUsers) \ {last.accessToken.claims.sub}
    /\ NumericDate(last.at) < last.accessToken.claims.exp
    /\ last.err # NoErr /\ last.userID = UuidNil

\* C10: whatever Logout, RefreshToken, UpdateUserPassword and DeleteUser calls
\* have been made since, ParseToken accepts an issued access token, and
\* verifies it to the user it was issued for, as long as its exp claim lies
\* after the current second.
C10_NotRevocable ==
    \A m \in minted :
        Unexpired(m.accessToken) => VerifiesTo(m.accessToken, m.userID)

C10_Witness ==
    \E m \in minted :
        /\ Unexpired(m.accessToken) /\ VerifiesTo(m.accessToken, m.userID)
        /\ m.userID # UuidNil /\ ~UserExists(m.userID)
        /\ last.op = "DeleteUser" /\ last.userID = m.userID /\ last.err = NoErr
        /\ \A r \in tokens : r.user_id # m.userID

\* the users whose email is this one and whose stored hash was made from the
\* key of this password
Holders(email, password) ==
    {u \in users : u.email = email /\ u.password.pw = BcryptKey(password)}

\* C11: a SignIn that arrives when no user has its email, or when its password
\* is not the one the hash stored for the email was made from, returns an error
\* (not found, respectively incorrect password) and the zero token pair, and
\* creates no refresh record.
C11_Step ==
    \A q \in BagToSet(calls') :
        (Arrived(q) /\ q.op = "SignIn" /\ Holders(q.email, q.password) = {}) =>
            /\ Failed(q) /\ q.out = OutZero /\ q.userID = UuidNil
            /\ CredRows(users, q.email) = {} => "ErrNotFound" \in q.err
            /\ CredRows(users, q.email) # {} => q.err = {"ErrIncorrectPassword"}
            /\ tokens' = tokens /\ nextTokenID' = nextTokenID /\ minted' = minted

C11_SignInRejects == [][C11_Step]_vars

C11_Witness ==
    /\ \E q \in Calls : q.op = "SignIn" /\ Failed(q) /\ "ErrNotFound" \in q.err
    /\ \E q \in Calls : /\ q.op = "SignIn" /\ Failed(q) /\ q.err = {"ErrIncorrectPassword"}
                        /\ CredRows(users, q.email) # {} /\ q.out = OutZero
    /\ tokens = {} /\ minted = {}

\* the SignUp call made in this step and its request
SignedUp == last' # last /\ last'.op = "SignUp"
EmptyField(in) == in.username = "" \/ in.email = "" \/ in.password = ""

\* C12: a SignUp whose username, email or password is empty returns an error
\* and the nil user ID; the error is the hasher's or the validation's, never
\* the repository's creation failure, and the users table is unchanged.
C12_Step ==
    (SignedUp /\ EmptyField(last'.in)) =>
        /\ last'.err # NoErr /\ last'.userID = UuidNil
        /\ "ErrFailedToCreate" \notin last'.err
        /\ last'.err \in {{"empty password"}, {"empty username"}, {"empty email"}}
        /\ users' = users /\ nextUUID' = nextUUID

C12_EmptyRejected == [][C12_Step]_vars

C12_Witness ==
    /\ last.op = "SignUp" /\ last.in.username = "" /\ last.in.email # "" /\ last.in.password # ""
    /\ last.err = {"empty username"} /\ last.userID = UuidNil
    /\ users # {}

\* the request passes GenerateHash and domain.User.Validate, and so reaches
\* UserR.CreateUser
ReachesCreateUser(in) ==
    LET h == GenerateHash(in.password, nextSalt) IN
    /\ h.err = NoErr
    /\ ValidateUser([id |-> nextUUID, username |-> in.username, email |-> in.email,
                     password |-> h.hash]) = NoErr

\* no two stored users share a username, an email or an ID, so the
\* credentials query finds at most one row for an email
C13_Unique ==
    /\ \A u, v \in users :
            (u.username = v.username \/ u.email = v.email \/ u.id = v.id) => u = v
    /\ \A in \in SignUpRequests : Cardinality(CredRows(users, in.email)) <= 1

C13_OriginalStep ==
    (SignedUp /\ \E u \in users : u.username = last'.in.username \/ u.email = last'.in.email)
    => /\ "ErrFailedToCreate" \in last'.err /\ last'.userID = UuidNil
       /\ users' = users

\* C13, as the claim states it: no two stored users share a username or an
\* email, and every SignUp whose username or email is that of a stored user
\* fails with ErrFailedToCreate and stores nothing.
C13_Original == []C13_Unique /\ [][C13_OriginalStep]_vars

\* a SignUp that reaches CreateUser with the username or the email of a stored
\* user fails with ErrFailedToCreate; one that does not reach it fails with
\* the error of the hasher or of the validation; neither stores a user
C13_Step ==
    (SignedUp /\ \E u \in users : u.username = last'.in.username \/ u.email = last'.in.email)
    => /\ last'.err # NoErr /\ last'.userID = UuidNil
       /\ users' = users
       /\ "ErrFailedToCreate" \in last'.err <=> ReachesCreateUser(last'.in)

\* C13, amended: no two stored users share a username, an email or an ID, so
\* the credentials query finds at most one row for an email; a SignUp with the
\* username or the email of a stored user stores nothing and fails, with
\* ErrFailedToCreate exactly when its password is hashed and its fields pass
\* the validation, and with the hasher's or the validation's error otherwise.
C13_UsersStayUnique == []C13_Unique /\ [][C13_Step]_vars

C13_Witness ==
    /\ last.op = "SignUp" /\ "ErrFailedToCreate" \in last.err /\ ~EmptyField(last.in)
    /\ \E u \in users : u.email = last.in.email /\ u.username # last.in.username
    /\ Cardinality(users) = 1 /\ last.userID = UuidNil

\* C14: the tokens table never holds two records with the same token ID, so
\* the lookup by token ID finds at most one record and no step of the service
\* removes more than one.
C14_OnePerID ==
    \A r, x \in tokens : r.token_id = x.token_id => r = x

C14_OneRecordPerID == []C14_OnePerID /\ [][Cardinality(tokens \ tokens') <= 1]_vars

C14_Witness ==
    \E r, x \in tokens :
        /\ r.user_id = x.user_id /\ r.token_id # x.token_id
        /\ \E q \in Refreshes(r.token_id) : q.pc = "DeleteToken" /\ q.tokenDB = r

\* the record A has been deleted by a Logout or by a RefreshToken
Consumed(A) ==
    \/ \E l \in Logouts(A) : Ok(l)
    \/ \E r \in Refreshes(A) :
            \/ r.pc = "CreateToken"
            \/ Done(r) /\ r.tokenDB # ZeroToken /\ "ErrFailedToDelete" \notin r.err
\* the call that acts in this step
Acting(q) == q \in BagToSet(calls') /\ CopiesIn(q, calls') > CopiesIn(q, calls)

\* C15: every SignIn and RefreshToken that succeeded issued a record of its
\* own, and that record is in the tokens table exactly as long as no Logout or
\* RefreshToken was made on its own token ID: a step of Logout(A) or
\* RefreshToken(A) removes no record other than A and changes none.
C15_OwnRecord ==
    /\ \A A \in IssuedIDs : Count(Issuers(A)) = 1
    /\ \A i \in SessionCalls :
            Ok(i) => (i.refreshToken \in tokens <=> ~Consumed(i.out.RefreshToken))

C15_Step ==
    \A q \in BagToSet(calls') :
        Acting(q) =>
            /\ \A row \in tokens \ tokens' :
                    q.op \in {"Logout", "RefreshToken"} /\ row.token_id = q.tokenID
            /\ \A row \in tokens' \ tokens :
                    row = q.refreshToken /\ row.token_id = nextTokenID

C15_SessionsIndependent == []C15_OwnRecord /\ [][C15_Step]_vars

C15_Witness ==
    \E s1, s2 \in Calls :
        /\ s1.op = "SignIn" /\ s2.op = "SignIn" /\ Ok(s1) /\ Ok(s2)
        /\ s1.userID = s2.userID /\ s1.out.RefreshToken # s2.out.RefreshToken
        /\ \E l \in Logouts(s1.out.RefreshToken) : Ok(l)
        /\ s1.refreshToken \notin tokens /\ s2.refreshToken \in tokens

\* the response of the endpoint that made the service call r
Response(r) == IF r.op = "SignIn" THEN signIn(r) ELSE refresh(r)
\* r failed inside authentication: unknown email, wrong password, or a refresh
\* token that is unknown, already consumed or expired
AuthFailure(r) ==
    /\ r.op \in {"SignIn", "RefreshToken"} /\ Failed(r)
    /\ \/ "ErrNotFound" \in r.err
       \/ r.err = {"ErrIncorrectPassword"}
       \/ r.err = {"token expired"}
    /\ r.op = "SignIn" => ValidateSignIn(r.email, r.password)
    /\ r.op = "RefreshToken" => r.tokenID # 0

\* C16, as the claim states it: two requests to the same endpoint that fail
\* inside authentication get the same response, whichever check failed.
C16_OpaqueAuthErrors ==
    \A r, q \in Calls :
        (AuthFailure(r) /\ AuthFailure(q) /\ r.op = q.op) => Response(r) = Response(q)

\* the GenerateHash calls made so far on the password p
HashesOf(p) == {c \in Made : c.password = p}
\* the latest call compared the password q with the hash the call c returned
ComparedWith(c, q) ==
    last.op = "ComparePassword" /\ c \in Made /\ last.hash = c.hash /\ last.password = q

\* C17, as the claim states it: for every non-empty password p, two
\* GenerateHash(p) calls return different hashes, ComparePassword accepts p
\* against each hash returned and rejects every other password.
C17_Original ==
    \A p \in HasherPasswords \ {""} : \A c \in HashesOf(p) :
        /\ \A d \in HashesOf(p) : d.n # c.n => d.hash # c.hash
        /\ \A q \in HasherPasswords :
                ComparedWith(c, q) => (last.err = NoErr <=> q = p)

\* C17, amended: for every non-empty password p of at most 72 bytes,
\* GenerateHash(p) returns no error, two GenerateHash(p) calls return different
\* hashes and ComparePassword accepts p against each of them; it rejects every
\* q # p of at most 72 bytes when neither p nor q holds a 0x00 byte.
C17_SaltedVerifiable ==
    \A p \in HasherPasswords \ {""} : \A c \in HashesOf(p) :
        Len(p) <= BcryptMaxBytes =>
            /\ c.err = NoErr /\ c.hash # NoHash
            /\ \A d \in HashesOf(p) : d.n # c.n => d.hash # c.hash
            /\ ComparedWith(c, p) => last.err = NoErr
            /\ \A q \in HasherPasswords \ {p} :
                    ( /\ ComparedWith(c, q) /\ Len(q) <= BcryptMaxBytes
                      /\ NoNul(p) /\ NoNul(q) ) => last.err # NoErr

C17_Witness ==
    \E p \in HasherPasswords : \E c, d \in HashesOf(p) :
        /\ Len(p) = BcryptMaxBytes /\ NoNul(p)
        /\ c.n # d.n /\ c.hash # d.hash /\ c.err = NoErr /\ d.err = NoErr
        /\ \E q \in Passwords \ {p} : ComparedWith(d, q) /\ last.err # NoErr
        /\ ComparePassword(c.hash, p) = NoErr

\* the step is a Note, UpdateNote or DeleteNote call of NoteR
NoteCalled == last' # last /\ last'.op \in {"Note", "UpdateNote", "DeleteNote"}
\* the notes with this ID that this user owns, read from the table itself
OwnedBy(userID, noteID) == {n \in notes : n.id = noteID /\ n.user_id = userID}
\* the notes with this ID that another user owns
OthersNote(userID, noteID) == {n \in notes : n.id = noteID /\ n.user_id # userID}

C18_Step ==
    NoteCalled =>
        /\ last'.err = NoErr => OwnedBy(last'.userID, last'.noteID) # {}
        /\ (last'.op = "Note" /\ last'.err = NoErr) =>
                last'.out \in OwnedBy(last'.userID, last'.noteID)
        /\ OthersNote(last'.userID, last'.noteID) # {} => last'.err # NoErr
        /\ \A n \in notes : n.user_id # last'.userID => n \in notes'

\* C18: Note, UpdateNote and DeleteNote called with (userID, noteID) succeed
\* only when userID owns the note noteID; a call with another user's ID fails
\* and every note of another owner is still in the table, unchanged.
C18_NotesIsolated == [][C18_Step]_vars

C18_Witness ==
    /\ last.op \in {"UpdateNote", "DeleteNote"}
    /\ last.err # NoErr
    /\ \E u \in users : u.id = last.userID
    /\ \E n \in notes : n.id = last.noteID /\ n.user_id # last.userID /\ n.updated_at < now

\* the RefreshToken call q returns in this step from its expiry check, which
\* it makes on the record it read and deleted
ExpiryChecked(q) ==
    /\ Acting(q) /\ q.op = "RefreshToken" /\ Done(q)
    /\ \E r \in BagToSet(calls) : r.pc = "CreateToken" /\ calls' = Move(r, q)

\* C19, as the claim states it: a RefreshToken whose record has its expiry at
\* or before the current time, the instant of expiry included, fails and
\* issues no access token and no refresh record.
C19_Step ==
    \A q \in BagToSet(calls') :
        (ExpiryChecked(q) /\ q.tokenDB.expired_at <= now) =>
            /\ Failed(q) /\ q.out = OutZero
            /\ tokens' = tokens /\ minted' = minted /\ nextTokenID' = nextTokenID

C19_ExpiredRefreshFails == [][C19_Step]_vars

\* the RefreshToken(A) calls that have failed with 'token expired'
ExpiredRefreshes(A) == {q \in Refreshes(A) : Done(q) /\ q.err = {"token expired"}}

\* a RefreshToken that stands before its expiry check, or has failed it, has
\* deleted the record it presented, and no record has its token ID
C20_Burned ==
    \A A \in IssuedIDs : \A q \in Refreshes(A) :
        (q.pc = "CreateToken" \/ q \in ExpiredRefreshes(A)) =>
            /\ q.tokenDB.token_id = A /\ q.tokenDB \notin tokens
            /\ \A rec \in tokens : rec.token_id # A
            /\ q \in ExpiredRefreshes(A) => q.out = OutZero /\ q.refreshToken = ZeroToken

\* the step that fails the expiry check writes no record and mints no token;
\* a RefreshToken(A) that arrives after such a failure fails as not found
C20_Step ==
    /\ \A q \in BagToSet(calls') :
            (ExpiryChecked(q) /\ q.err = {"token expired"}) =>
                tokens' = tokens /\ minted' = minted /\ nextTokenID' = nextTokenID
    /\ \A A \in IssuedIDs :
            ExpiredRefreshes(A) # {} =>
                \A r \in BagToSet(calls') :
                    (Arrived(r) /\ r.op = "RefreshToken" /\ r.tokenID = A) =>
                        /\ Failed(r) /\ r.err = MakeError("ErrReceiving", {"ErrNotFound"})
                        /\ tokens' = tokens

\* C20: RefreshToken deletes the presented record before it checks the
\* expiry: after a RefreshToken(A) that fails with 'token expired' the record
\* A is not in the store, no replacement record exists, and a retry of
\* RefreshToken(A) fails as not found.
C20_ExpiredConsumed == []C20_Burned /\ [][C20_Step]_vars

C20_Witness ==
    \E A \in IssuedIDs :
        /\ ExpiredRefreshes(A) # {}
        /\ Logouts(A) = {}
        /\ \E r \in Refreshes(A) : Failed(r) /\ "ErrNotFound" \in r.err /\ r.tokenDB = ZeroToken
        /\ \A rec \in tokens : rec.token_id # A

\* no record of the tokens table has the token ID A
NoLiveRecord(A) == \A rec \in tokens : rec.token_id # A

\* C21: a RefreshToken(A) that arrives when no record has the token ID A
\* returns at the lookup with the not-found error of TokenR.Token, without a
\* DeleteToken or a CreateToken: the tokens table is unchanged and nothing is
\* issued.
C21_Step ==
    \A q \in BagToSet(calls') :
        (Arrived(q) /\ q.op = "RefreshToken" /\ NoLiveRecord(q.tokenID)) =>
            /\ Done(q) /\ q.err = MakeError("ErrReceiving", {"ErrNotFound"})
            /\ q.tokenDB = ZeroToken /\ q.out = OutZero
            /\ tokens' = tokens /\ minted' = minted /\ nextTokenID' = nextTokenID

C21_UnknownTokenNoWrite == [][C21_Step]_vars

C21_Witness ==
    \E q \in Calls :
        /\ q.op = "RefreshToken" /\ Failed(q) /\ q.tokenDB = ZeroToken
        /\ NoLiveRecord(q.tokenID)
        /\ tokens # {}

\* the RefreshToken call q deletes in this step the record it read
DeletesOwn(q) ==
    /\ Acting(q) /\ q.op = "RefreshToken"
    /\ q.tokenDB \in tokens /\ q.tokenDB \notin tokens'

\* the step that deletes a live, unexpired record A also writes a record for
\* the owner of A
C22_Step ==
    \A q \in BagToSet(calls') :
        (DeletesOwn(q) /\ ~TokenExpired(q.tokenDB, now)) =>
            \E rec \in tokens' \ tokens : rec.user_id = q.tokenDB.user_id

\* a RefreshToken that has returned after it deleted an unexpired record A
\* has persisted the replacement
C22_Outcome ==
    \A q \in Calls :
        ( /\ q.op = "RefreshToken" /\ Done(q) /\ q.tokenDB # ZeroToken
          /\ "ErrFailedToDelete" \notin q.err /\ q.err # {"token expired"} )
        => Ok(q) /\ q.refreshToken.user_id = q.tokenDB.user_id

\* C22, as the claim states it: RefreshToken(A) on a live, unexpired A
\* consumes A and persists the replacement as one step, and no outcome, a
\* failure to persist the new record included, leaves A deleted with no
\* replacement for its owner.
C22_RotationAtomic == []C22_Outcome /\ [][C22_Step]_vars

\* the token ID was never seen before this step: no record has it and no call
\* presented, generated or returned it
FreshTokenID(id) ==
    /\ id # 0
    /\ \A rec \in tokens : rec.token_id # id
    /\ \A r \in Calls : r.tokenID # id /\ r.refreshToken.token_id # id /\ r.out.RefreshToken # id

\* C23: the step in which a RefreshToken(A) returns without error writes one
\* new record: its token ID is fresh, its user ID is that of the record A the
\* call read and deleted, its expiry is now + RefreshTokenTTL; the call returns
\* the ID of that record and an access token that ParseToken verifies to the
\* same user ID.
C23_Step ==
    \A q \in BagToSet(calls') :
        (ExpiryChecked(q) /\ Ok(q)) =>
            /\ q.tokenDB.token_id = q.tokenID
            /\ tokens' = tokens \cup {q.refreshToken} /\ q.refreshToken \notin tokens
            /\ FreshTokenID(q.refreshToken.token_id)
            /\ q.refreshToken.user_id = q.tokenDB.user_id
            /\ q.refreshToken.expired_at = now + RefreshTokenTTL
            /\ q.out.RefreshToken = q.refreshToken.token_id
            /\ VerifiesTo(q.out.AccessToken, q.tokenDB.user_id)

C23_NewPairForOwner == [][C23_Step]_vars

C23_Witness ==
    \E q \in Calls : \E s \in Calls :
        /\ q.op = "RefreshToken" /\ Ok(q) /\ s.op = "SignIn" /\ Ok(s)
        /\ s.out.RefreshToken = q.tokenID /\ s.refreshToken = q.tokenDB
        /\ q.refreshToken \in tokens /\ q.refreshToken.user_id = s.userID
        /\ q.refreshToken.expired_at > s.refreshToken.expired_at
        /\ Cardinality(users) = 2

\* the latest call is a ParseToken on a token that carries the signature of
\* the service's secret and whose exp claim lay after the time of the call
ParsedValidSigned ==
    /\ last.op = "ParseToken"
    /\ last.accessToken.hdr.alg = "HS256"
    /\ last.accessToken.mac = Hmac(JwtSecret, last.accessToken.hdr, last.accessToken.claims)
    /\ NumericDate(last.at) < last.accessToken.claims.exp
    /\ NumericDate(last.at) >= last.accessToken.claims.iat

\* C24: ParseToken returns an error and no user ID for every correctly
\* signed, unexpired token whose sub claim is missing, is not a string, or is
\* a string that is not a UUID.
C24_BadSubjectRejected ==
    (ParsedValidSigned /\ last.accessToken.claims.sub \in {SubMissing, SubNotString, SubNotUUID})
        => last.err # NoErr /\ last.userID = UuidNil

C24_Witness ==
    /\ ParsedValidSigned
    /\ last.accessToken.claims.sub = SubNotUUID
    /\ last.err # NoErr /\ last.userID = UuidNil /\ last.at > 0

\* C25, as the claim states it: every error ParseToken returns is one and the
\* same error, whatever made the token fail: a caller sees no difference
\* between a bad signature, an expired token and a bad sub claim.
C25_OneErrorKind ==
    (last.op = "ParseToken" /\ last.err # NoErr) => last.err = {"invalid token"}

\* the step is a request to the logout endpoint
LoggedOut == last' # last /\ last'.op = "logout"

\* C26, as the claim states it: when the logout endpoint answers a request
\* that carries a refresh_token cookie with success, no record has the token
\* ID of the cookie afterwards, and a refresh with that cookie that arrives
\* later fails.
C26_Step ==
    /\ (LoggedOut /\ last'.resp.status = 200 /\ last'.req.cookie # 0) =>
            \A rec \in tokens' : rec.token_id # last'.req.cookie
    /\ (last.op = "logout" /\ last.resp.status = 200 /\ last.req.cookie # 0) =>
            \A q \in BagToSet(calls') :
                (Arrived(q) /\ q.op = "RefreshToken" /\ q.tokenID = last.req.cookie) => Failed(q)

C26_LogoutRevokesCookie == [][C26_Step]_vars

\* C27, as the claim states it: for every request authMiddleware admits, with
\* a refresh_token cookie and a Bearer access token that verifies to the user
\* u, getUserID on the context of the request returns u and no error.
C27_AdmittedHasUserID ==
    (last.op = "authMiddleware" /\ last.admitted /\ last.userID # UuidNil) =>
        last.got = [userID |-> last.userID, err |-> NoErr]

\* the live refresh records of the user u, and how many there are
LiveOf(u) == {rec \in tokens : rec.user_id = u}
Live(u) == Cardinality(LiveOf(u))
\* the SignIn calls of the user u that have succeeded
SignIns(u) == Count({r \in Calls : r.op = "SignIn" /\ Ok(r) /\ r.userID = u})
\* the RefreshToken calls that have deleted a record of u and not yet
\* written its replacement
Rotating(u) == Count({r \in Calls : r.op = "RefreshToken" /\ r.pc = "CreateToken"
                                     /\ r.tokenDB.user_id = u})

\* the live records of a user, with one more for every RefreshToken between
\* its delete and its insert, are never more than the successful SignIn calls
C28_Bounded == \A u \in 1..MaxUsers : Live(u) + Rotating(u) <= SignIns(u)

\* a Logout step adds no record; a RefreshToken step adds at most one, and
\* only for a call that had deleted one of the same user before
C28_Step ==
    \A q \in BagToSet(calls') : \A u \in 1..MaxUsers :
        /\ (Acting(q) /\ q.op = "Logout") => LiveOf(u)' \subseteq LiveOf(u)
        /\ (Acting(q) /\ q.op = "RefreshToken") =>
                \/ LiveOf(u)' \subseteq LiveOf(u)
                \/ /\ ExpiryChecked(q) /\ q.tokenDB.user_id = u /\ q.tokenDB \notin tokens
                   /\ Live(u)' = Live(u) + 1 /\ Rotating(u)' = Rotating(u) - 1

\* C28: across the interleavings of SignIn, RefreshToken and Logout the live
\* refresh records of a user never outnumber that user's successful SignIn
\* calls: a RefreshToken removes a record before it adds at most one, a
\* Logout only removes.
C28_RecordsBoundedBySignIns == []C28_Bounded /\ [][C28_Step]_vars

C28_Witness ==
    \E u \in 1..MaxUsers :
        /\ SignIns(u) = 2 /\ Live(u) = 2
        /\ \E q \in Calls : q.op = "RefreshToken" /\ Ok(q) /\ q.tokenDB.user_id = u
                            /\ q.refreshToken \in tokens

\* the users that were deleted: their IDs were given out and are in no row
DeletedUsers == {u \in 1..(nextUUID - 1) : ~UserExists(u)}
\* the token IDs that were issued to the user u
IssuedTo(u) == {A \in IssuedIDs : \E i \in Issuers(A) : i.userID = u}

\* every record of the tokens table belongs to a row of the users table
C29_Owned == \A rec \in tokens : UserExists(rec.user_id)

\* a DeleteUser(u) that succeeds leaves no record of u; a RefreshToken that
\* returns when the owner of its record is deleted fails and writes nothing;
\* a RefreshToken that arrives with a token issued to a deleted user fails at
\* once
C29_Step ==
    /\ (last' # last /\ last'.op = "DeleteUser" /\ last'.err = NoErr) =>
            /\ \A usr \in users' : usr.id # last'.userID
            /\ \A rec \in tokens' : rec.user_id # last'.userID
    /\ \A q \in BagToSet(calls') : \A u \in DeletedUsers :
            /\ (ExpiryChecked(q) /\ q.tokenDB.user_id = u) =>
                    Failed(q) /\ q.out = OutZero /\ tokens' = tokens
            /\ (Arrived(q) /\ q.op = "RefreshToken" /\ q.tokenID \in IssuedTo(u)) =>
                    Failed(q) /\ Done(q) /\ tokens' = tokens

\* C29: every live refresh record is owned by an existing user: DeleteUser(u)
\* removes the records of u, a RefreshToken interleaved with DeleteUser(u)
\* persists no new record for u, and after DeleteUser(u) every RefreshToken
\* with a token issued to u fails.
C29_RecordsHaveOwners == []C29_Owned /\ [][C29_Step]_vars

C29_Witness ==
    \E u \in DeletedUsers :
        /\ last.op = "DeleteUser" /\ last.userID = u /\ last.err = NoErr
        /\ \E q \in Calls : /\ q.op = "RefreshToken" /\ q.tokenDB.user_id = u
                            /\ "ErrFailedToCreate" \in q.err /\ q.tokenID \in IssuedTo(u)
        /\ tokens = {}

\* C30, as the claim states it: when the repository returns k >= 1 notes with
\* total > 0, the Data of the response of NoteS.Notes holds exactly those k
\* notes, mapped, in the order of the repository, and nothing else.
C30_NotesOneToOne ==
    (last.op = "Notes" /\ last.total > 0 /\ Len(last.notesDB) >= 1) =>
        /\ Len(last.out.Data) = Len(last.notesDB)
        /\ \A i \in 1..Len(last.notesDB) : last.out.Data[i] = noteDomainToDTO(last.notesDB[i])

====
